---- MODULE Spec2Model ----
(***************************************************************************)
(* In-memory accounts store (accounts-db/src/in_memory): tiered slab       *)
(* arenas, three-epoch deferred reclamation, identifier registry, packed   *)
(* 16-byte metadata word, token-account compressor, and the load/store     *)
(* operations composed from them.                                          *)
(*                                                                         *)
(* Representation:                                                         *)
(*   - a byte is a number in 0..255, a byte string is a sequence of bytes; *)
(*     Rust's s[a..b] is Slice(s, a, b);                                   *)
(*   - a u64 is a sequence of 64 bits, least significant first, so that    *)
(*     shifts and masks keep their width;                                  *)
(*   - u32 values (registry ids, slot indices, tags) are numbers; the      *)
(*     inputs keep them below 2^31;                                        *)
(*   - a Pubkey is its 32 bytes;                                           *)
(*   - the metadata word is the record of its five bit fields; it is the   *)
(*     128-bit zero exactly when every field is zero.                      *)
(***************************************************************************)
EXTENDS Integers, Sequences, FiniteSets, TLC

(***************************************************************************)
(* Bounds of the model.                                                    *)
(***************************************************************************)
MaxOps == 3
MaxSeqOps == 2
MaxOwnerOps == 2
MaxFullOps == 5
MaxLiveOps == 2
OwnerTableSize == 3
ArenaSlots == 3
MaxArenaOps == 5
MaxLen == 8200
MaxRentEpoch == 4100

(***************************************************************************)
(* Program constants.                                                      *)
(***************************************************************************)
TIER_SIZES == <<0, 16, 32, 48, 64, 80, 96, 112, 128, 144, 160, 176, 256, 512, 1024, 8192>>
COMMIT_CHUNK_SIZE == 2097152
TOKEN_ACCOUNT_LEN == 165
SHORT_TOKEN_TIER == 11
SPL_FLAG_STATE_MASK == 3
SPL_FLAG_IS_NATIVE == 4
SPL_FLAG_HAS_DELEGATE == 8
SPL_FLAG_HAS_CLOSE_AUTH == 16
SPL_FLAG_HAS_DEL_AMT == 32
TOKEN_PROGRAM_ID ==
  <<6, 221, 246, 225, 215, 101, 161, 147, 217, 203, 225, 70, 206, 235, 121, 172,
    28, 180, 133, 237, 95, 91, 55, 145, 58, 140, 245, 133, 126, 255, 0, 169>>

(***************************************************************************)
(* Bytes, bits and integers of fixed width.                                *)
(***************************************************************************)
Slice(s, a, b) == SubSeq(s, a + 1, b)
Zeros(n) == [i \in 1..n |-> 0]
Pow2(k) == 2 ^ k

\* u64 from a number below 2^31
U64Of(n) == [i \in 1..64 |-> IF i <= 31 THEN (n \div Pow2(i - 1)) % 2 ELSE 0]
U64_ZERO == [i \in 1..64 |-> 0]
U64_MAX == [i \in 1..64 |-> 1]
U64Shl(x, k) == [i \in 1..64 |-> IF i > k THEN x[i - k] ELSE 0]
U64Shr(x, k) == [i \in 1..64 |-> IF i + k <= 64 THEN x[i + k] ELSE 0]
U64Or(x, y) == [i \in 1..64 |-> IF x[i] = 1 \/ y[i] = 1 THEN 1 ELSE 0]
U64And(x, y) == [i \in 1..64 |-> IF x[i] = 1 /\ y[i] = 1 THEN 1 ELSE 0]
U64Gt0(x) == \E i \in 1..64 : x[i] = 1
LAMPORTS_MASK_51 == [i \in 1..64 |-> IF i <= 51 THEN 1 ELSE 0]

\* u64::from_le_bytes / u64::to_le_bytes
u64_from_le_bytes(b) == [i \in 1..64 |-> (b[((i - 1) \div 8) + 1] \div Pow2((i - 1) % 8)) % 2]
u64_to_le_bytes(x) ==
  [j \in 1..8 |->
     x[8*j - 7] + 2 * x[8*j - 6] + 4 * x[8*j - 5] + 8 * x[8*j - 4]
     + 16 * x[8*j - 3] + 32 * x[8*j - 2] + 64 * x[8*j - 1] + 128 * x[8*j]]

\* u32::from_le_bytes / u32::to_le_bytes
u32_from_le_bytes(b) == b[1] + 256 * b[2] + 65536 * b[3] + 16777216 * b[4]
u32_to_le_bytes(v) ==
  <<v % 256, (v \div 256) % 256, (v \div 65536) % 256, (v \div 16777216) % 256>>

\* flags & mask # 0 for a one-bit mask, flags | mask
FlagSet(flags, mask) == (flags \div mask) % 2 = 1
FlagOr(flags, mask) == IF FlagSet(flags, mask) THEN flags ELSE flags + mask

(***************************************************************************)
(* Meta16B: the packed metadata word.                                      *)
(***************************************************************************)
Meta16B_new ==
  [lamports_rent |-> U64_ZERO, owner_idx |-> 0, data_offset |-> 0,
   data_pool_id |-> 0, flags |-> 0]

\* the transmuted u128 is 0
MetaIsZero(m) == m = Meta16B_new

\* variant: the lamports are read through the 51-bit mask in both schemes
get_lamports_masked(m) == U64And(U64Shr(m.lamports_rent, 1), LAMPORTS_MASK_51)

get_lamports(m) ==
  LET val == m.lamports_rent
  IN  IF val[1] = 1 THEN U64Shr(val, 1) ELSE U64And(U64Shr(val, 1), LAMPORTS_MASK_51)

get_rent_epoch(m) ==
  LET val == m.lamports_rent
  IN  IF val[1] = 1 THEN U64_MAX ELSE U64Shr(val, 52)

\* store's lamports_rent expression
EncodeLamportsRent(lamports, rent_epoch) ==
  IF U64Gt0(lamports)
    THEN U64Or(U64Shl(lamports, 1), U64Of(1))
    ELSE U64Or(U64Shl(lamports, 1), U64Shl(rent_epoch, 52))

(***************************************************************************)
(* get_pool_id: first tier, in table order, whose size admits len.         *)
(***************************************************************************)
RECURSIVE PoolScan(_, _)
PoolScan(len, i) ==
  IF i > 16 THEN 15
  ELSE IF len <= TIER_SIZES[i] THEN i - 1
  ELSE PoolScan(len, i + 1)

\* a scan that admits len only below the tier size
RECURSIVE PoolScanStrict(_, _)
PoolScanStrict(len, i) ==
  IF i > 16 THEN 15
  ELSE IF len < TIER_SIZES[i] THEN i - 1
  ELSE PoolScanStrict(len, i + 1)

get_pool_id_strict(len) == PoolScanStrict(len, 1)

get_pool_id(len) == PoolScan(len, 1)

(***************************************************************************)
(* PubkeyRegistry lookups (the registry state is forward, reverse).        *)
(***************************************************************************)
PubkeyDefault == Zeros(32)
RegistryHas(rev, id) == id < Len(rev)
\* get_pubkey(id).unwrap_or_default()
get_pubkey_or_default(rev, id) == IF RegistryHas(rev, id) THEN rev[id + 1] ELSE PubkeyDefault

(***************************************************************************)
(* SPLCompressor::compress, in three parts: the flags it derives from the  *)
(* canonical bytes, the identifiers it registers (in call order), and the  *)
(* payload it packs from the ids the registry returned.                    *)
(***************************************************************************)
TokenHasDelegate(data) == u32_from_le_bytes(Slice(data, 72, 76)) # 0
TokenIsNative(data) == u32_from_le_bytes(Slice(data, 109, 113)) # 0
TokenHasDelAmt(data) == U64Gt0(u64_from_le_bytes(Slice(data, 121, 129)))
TokenHasCloseAuth(data) == u32_from_le_bytes(Slice(data, 129, 133)) # 0

\* flags without the native bit
compress_flags_no_native(data) ==
  LET f0 == data[109] % (SPL_FLAG_STATE_MASK + 1)
      f2 == IF TokenHasDelegate(data) THEN FlagOr(f0, SPL_FLAG_HAS_DELEGATE) ELSE f0
      f3 == IF TokenHasCloseAuth(data) THEN FlagOr(f2, SPL_FLAG_HAS_CLOSE_AUTH) ELSE f2
  IN  IF TokenHasDelAmt(data) THEN FlagOr(f3, SPL_FLAG_HAS_DEL_AMT) ELSE f3

compress_flags(data) ==
  LET f0 == data[109] % (SPL_FLAG_STATE_MASK + 1)
      f1 == IF TokenIsNative(data) THEN FlagOr(f0, SPL_FLAG_IS_NATIVE) ELSE f0
      f2 == IF TokenHasDelegate(data) THEN FlagOr(f1, SPL_FLAG_HAS_DELEGATE) ELSE f1
      f3 == IF TokenHasCloseAuth(data) THEN FlagOr(f2, SPL_FLAG_HAS_CLOSE_AUTH) ELSE f2
  IN  IF TokenHasDelAmt(data) THEN FlagOr(f3, SPL_FLAG_HAS_DEL_AMT) ELSE f3

\* a selection that takes tier 2 for every native account
compress_tier_native_first(data) ==
  IF ~TokenHasDelegate(data) /\ ~TokenHasCloseAuth(data) /\ ~TokenHasDelAmt(data)
     /\ ~TokenIsNative(data) THEN 1
  ELSE IF TokenIsNative(data) THEN 2
  ELSE 3

compress_tier(data) ==
  IF ~TokenHasDelegate(data) /\ ~TokenHasCloseAuth(data) /\ ~TokenHasDelAmt(data)
     /\ ~TokenIsNative(data) THEN 1
  ELSE IF ~TokenHasDelegate(data) /\ ~TokenHasCloseAuth(data) /\ ~TokenHasDelAmt(data)
     /\ TokenIsNative(data) THEN 2
  ELSE 3

\* the registry.register calls of compress, in order
compress_keys(data) ==
  <<Slice(data, 0, 32), Slice(data, 32, 64)>>
  \o (IF compress_tier(data) = 3 /\ TokenHasDelegate(data)
        THEN <<Slice(data, 76, 108)>> ELSE <<>>)
  \o (IF compress_tier(data) = 3 /\ TokenHasCloseAuth(data)
        THEN <<Slice(data, 133, 165)>> ELSE <<>>)

\* ids: what the register calls of compress_keys(data) returned
compress_pack(data, ids) ==
  LET mint_id == ids[1]
      owner_id == ids[2]
      amount == u64_from_le_bytes(Slice(data, 64, 72))
      del_amt == u64_from_le_bytes(Slice(data, 121, 129))
      tier == compress_tier(data)
      flags == compress_flags(data)
      head == u32_to_le_bytes(mint_id) \o u32_to_le_bytes(owner_id)
              \o u64_to_le_bytes(amount)
  IN  IF tier = 1 THEN [tier |-> 1, buf |-> head, flags |-> flags]
      ELSE IF tier = 2 THEN
        LET native_amt == u64_from_le_bytes(Slice(data, 113, 121))
        IN  [tier |-> 2, buf |-> head \o u64_to_le_bytes(native_amt) \o Zeros(8),
             flags |-> flags]
      ELSE
        LET native_amt == IF TokenIsNative(data)
                            THEN u64_from_le_bytes(Slice(data, 113, 121)) ELSE U64_ZERO
            delegate_id == IF TokenHasDelegate(data) THEN ids[3] ELSE 0
            close_auth_id == IF TokenHasCloseAuth(data)
                               THEN ids[IF TokenHasDelegate(data) THEN 4 ELSE 3] ELSE 0
        IN  [tier |-> 3,
             buf |-> head \o u64_to_le_bytes(native_amt) \o u64_to_le_bytes(del_amt)
                     \o u32_to_le_bytes(delegate_id) \o u32_to_le_bytes(close_auth_id)
                     \o Zeros(8),
             flags |-> flags]

(***************************************************************************)
(* SPLCompressor::decompress.                                              *)
(***************************************************************************)
\* data[off .. off+len(bytes)].copy_from_slice(bytes)
Put(data, off, bytes) ==
  [i \in 1..Len(data) |->
     IF i > off /\ i <= off + Len(bytes) THEN bytes[i - off] ELSE data[i]]

decompress(tier, compressed, flags, rev) ==
  LET mint_id == u32_from_le_bytes(Slice(compressed, 0, 4))
      owner_id == u32_from_le_bytes(Slice(compressed, 4, 8))
      amount == u64_from_le_bytes(Slice(compressed, 8, 16))
      d0 == Zeros(TOKEN_ACCOUNT_LEN)
      d1 == Put(d0, 0, get_pubkey_or_default(rev, mint_id))
      d2 == Put(d1, 32, get_pubkey_or_default(rev, owner_id))
      d3 == Put(d2, 64, u64_to_le_bytes(amount))
      d4 == Put(d3, 108, <<flags % (SPL_FLAG_STATE_MASK + 1)>>)
      d5 == IF FlagSet(flags, SPL_FLAG_IS_NATIVE)
              THEN LET native_amt ==
                         IF tier = 2 \/ tier = 3
                           THEN u64_from_le_bytes(Slice(compressed, 16, 24))
                           ELSE U64_ZERO
                   IN  Put(Put(d4, 109, u32_to_le_bytes(1)), 113,
                           u64_to_le_bytes(native_amt))
              ELSE d4
      d6 == IF tier = 3
              THEN Put(d5, 121,
                       u64_to_le_bytes(u64_from_le_bytes(Slice(compressed, 24, 32))))
              ELSE d5
      d7 == IF tier = 3 /\ FlagSet(flags, SPL_FLAG_HAS_DELEGATE)
              THEN Put(Put(d6, 72, u32_to_le_bytes(1)), 76,
                       get_pubkey_or_default(rev,
                         u32_from_le_bytes(Slice(compressed, 32, 36))))
              ELSE d6
  IN  IF tier = 3 /\ FlagSet(flags, SPL_FLAG_HAS_CLOSE_AUTH)
        THEN Put(Put(d7, 129, u32_to_le_bytes(1)), 133,
                 get_pubkey_or_default(rev,
                   u32_from_le_bytes(Slice(compressed, 36, 40))))
        ELSE d7

(***************************************************************************)
(* State.                                                                  *)
(*   current_epoch, active_counts, retired   EbrState                      *)
(*   pools            the 16 data arenas (ArenaInner and the slot memory)  *)
(*   meta             the metadata arena's slots, by account handle; the   *)
(*                    slots are taken to be mapped and zero-filled         *)
(*   forward, reverse RegistryInner                                        *)
(*   owner_registry   owner table                                          *)
(*   th               per thread: the operation in progress, its program   *)
(*                    point and its locals                                 *)
(*   cfg              the workload: callable inputs and handles            *)
(*   opsLeft          operations that may still be started                 *)
(*   hist             history of what the operations did and returned      *)
(*   probe            last call of a pure function: its input and output   *)
(***************************************************************************)
VARIABLES current_epoch, active_counts, retired, pools, meta, forward, reverse,
          owner_registry, th, cfg, opsLeft, hist, probe

vars == <<current_epoch, active_counts, retired, pools, meta, forward, reverse,
          owner_registry, th, cfg, opsLeft, hist, probe>>

ebrVars == <<current_epoch, active_counts, retired>>
regVars == <<forward, reverse>>

(***************************************************************************)
(* SubArena.                                                               *)
(***************************************************************************)
SlotSize(pool) == IF TIER_SIZES[pool + 1] > 8 THEN TIER_SIZES[pool + 1] ELSE 8

SubArena_new ==
  [next_index |-> 1, committed_upto_bytes |-> 0, free_head |-> 0, active_count |-> 0,
   mem |-> <<>>, gen |-> <<>>]

\* the metadata arena, SubArena::new(16, 32): load and store take its slot
\* addresses with get_ptr and never call its alloc or free, so it stays as
\* constructed
META_SLOT_SIZE == 16
meta_arena == SubArena_new

\* commit_more: round up to the commit chunk
commit_more(required_bytes) ==
  ((required_bytes + COMMIT_CHUNK_SIZE - 1) \div COMMIT_CHUNK_SIZE) * COMMIT_CHUNK_SIZE

\* alloc, under the arena mutex: the slot index returned
alloc_idx(a) == IF a.free_head # 0 THEN a.free_head ELSE a.next_index

\* an alloc that hands out a recycled slot as it was left
alloc_arena_dirty(a, pool) ==
  LET idx == alloc_idx(a)
  IN  IF a.free_head # 0
        THEN [a EXCEPT !.free_head = u32_from_le_bytes(Slice(a.mem[idx], 0, 4)),
                       !.gen = [@ EXCEPT ![idx] = @ + 1],
                       !.active_count = @ + 1]
        ELSE [a EXCEPT !.next_index = @ + 1,
                       !.mem = Append(@, Zeros(SlotSize(pool))),
                       !.gen = Append(@, 1),
                       !.active_count = @ + 1]

\* alloc, under the arena mutex: the arena afterwards.  mem holds the slots
\* below next_index; gen counts the allocations of each slot (history).
alloc_arena(a, pool) ==
  LET idx == alloc_idx(a)
      zero == Zeros(SlotSize(pool))
  IN  IF a.free_head # 0
        THEN [a EXCEPT !.free_head = u32_from_le_bytes(Slice(a.mem[idx], 0, 4)),
                       !.mem = [@ EXCEPT ![idx] = zero],
                       !.gen = [@ EXCEPT ![idx] = @ + 1],
                       !.active_count = @ + 1]
        ELSE LET required_bytes == (idx + 1) * SlotSize(pool)
             IN  [a EXCEPT !.next_index = @ + 1,
                           !.committed_upto_bytes =
                              IF required_bytes > @ THEN commit_more(required_bytes) ELSE @,
                           !.mem = Append(@, zero),
                           !.gen = Append(@, 1),
                           !.active_count = @ + 1]

\* a free that drops the slot instead of linking it
free_arena_lost(a, idx) ==
  IF idx = 0 THEN a ELSE [a EXCEPT !.active_count = @ - 1]

\* free, under the arena mutex
free_arena(a, idx) ==
  IF idx = 0 THEN a
  ELSE [a EXCEPT !.mem = [@ EXCEPT ![idx] = Put(@, 0, u32_to_le_bytes(a.free_head))],
                 !.free_head = idx,
                 !.active_count = @ - 1]

\* the slot indices on the intrusive free list, following the links in memory
RECURSIVE FreeListFrom(_, _, _)
FreeListFrom(a, idx, fuel) ==
  IF idx = 0 \/ fuel = 0 \/ idx >= a.next_index THEN {}
  ELSE {idx} \cup FreeListFrom(a, u32_from_le_bytes(Slice(a.mem[idx], 0, 4)), fuel - 1)

FreeList(a) == FreeListFrom(a, a.free_head, a.next_index)

(***************************************************************************)
(* AccountInfo values and the workloads.                                   *)
(***************************************************************************)
AccountInfo(lamports, owner, data, rent_epoch, executable) ==
  [lamports |-> lamports, owner |-> owner, data |-> data, rent_epoch |-> rent_epoch,
   executable |-> executable]

NoInfo == AccountInfo(U64_ZERO, PubkeyDefault, <<>>, U64_ZERO, FALSE)
None == [some |-> FALSE, val |-> NoInfo]
Some(v) == [some |-> TRUE, val |-> v]

\* a Pubkey told apart by its first byte
PK(k) == [i \in 1..32 |-> IF i = 1 THEN k ELSE 0]
\* n bytes told apart by a seed
Bytes(n, seed) == [i \in 1..n |-> (seed + i) % 256]

\* the 165-byte layout of a token account
TokenData(mint, owner, amount, dtag, delegate, state, ntag, namt, damt, ctag, cauth) ==
  mint \o owner \o u64_to_le_bytes(amount) \o u32_to_le_bytes(dtag) \o delegate
  \o <<state>> \o u32_to_le_bytes(ntag) \o u64_to_le_bytes(namt) \o u64_to_le_bytes(damt)
  \o u32_to_le_bytes(ctag) \o cauth

(***************************************************************************)
(* Threads.  A thread is idle or inside one load or store; pc is the next  *)
(* shared-memory step of that call, the other fields are its locals.       *)
(* seen_gen, seen_raw, read_freed, read_other, stored_before and cands are *)
(* history.                                                                *)
(***************************************************************************)
IdleThread ==
  [pc |-> "idle", op |-> "none", account_id |-> 0, info |-> NoInfo,
   epoch |-> 0,
   pool_id |-> 0, data_buf |-> <<>>, flags |-> 0, data_offset |-> 0,
   reg_keys |-> <<>>, reg_ids |-> <<>>, reg_ret |-> "none",
   owner_account |-> 0, scan_i |-> 0, owner_idx |-> 0, old_meta |-> Meta16B_new,
   curr |-> 0, meta_val |-> Meta16B_new, owner |-> PubkeyDefault, result |-> None,
   seen_gen |-> 0, seen_raw |-> <<>>, read_freed |-> FALSE, read_other |-> FALSE,
   stored_before |-> FALSE, cands |-> {}]

\* the guard returned by enter() is alive: the count is incremented and
\* Guard::drop has not yet decremented it
GuardLive(rec) ==
  rec.pc \notin {"idle", "enter_load", "enter_inc", "adv_load", "adv_check", "adv_cas"}

(***************************************************************************)
(* load, as one read of a consistent state: what load computes from a      *)
(* metadata word.  The steps of load below evaluate the same parts.        *)
(***************************************************************************)
load_data(m, owner, pls, rev) ==
  LET raw_data == pls[m.data_pool_id].mem[m.data_offset]
  IN  IF owner = TOKEN_PROGRAM_ID /\ m.data_pool_id <= 3
        THEN decompress(m.data_pool_id, raw_data, m.flags, rev)
        ELSE raw_data

load_result(m, owner, data) ==
  Some(AccountInfo(get_lamports(m), owner, data, get_rent_epoch(m), FlagSet(m.flags, 1)))

LoadView(m, oreg, rev, pls) ==
  IF MetaIsZero(m) THEN None
  ELSE LET id == oreg[m.owner_idx]
       IN  IF ~RegistryHas(rev, id) THEN None
           ELSE LET owner == rev[id + 1]
                IN  load_result(m, owner,
                      IF m.data_pool_id = 0 THEN <<>> ELSE load_data(m, owner, pls, rev))

(***************************************************************************)
(* Initial states.                                                         *)
(***************************************************************************)
InitStore(threads, inputs, handles, ops) ==
  /\ current_epoch = 0
  /\ active_counts = [e \in 0..2 |-> 0]
  /\ retired = [e \in 0..2 |-> <<>>]
  /\ pools = [p \in 0..15 |-> SubArena_new]
  /\ meta = [h \in handles |-> Meta16B_new]
  /\ forward = <<>>
  /\ reverse = <<>>
  /\ owner_registry = [i \in 0..(OwnerTableSize - 1) |-> 0]
  /\ th = [t \in threads |-> IdleThread]
  /\ cfg = [inputs |-> inputs, handles |-> handles]
  /\ opsLeft = ops
  /\ hist = [image |-> [h \in handles |-> None],
             last_stored |-> [h \in handles |-> None],
             completed |-> {},
             owner_slots |-> {},
             register_returns |-> {},
             reclaimed_live |-> {}]
  /\ probe = [fn |-> "none"]

(***************************************************************************)
(* Starting a call: load(account_id) or store(account_id, info).           *)
(***************************************************************************)
BeginLoad(t) ==
  /\ th[t].pc = "idle"
  /\ opsLeft > 0
  /\ \E h \in cfg.handles :
       th' = [th EXCEPT ![t] = [IdleThread EXCEPT
                !.pc = "enter_load", !.op = "load", !.account_id = h,
                !.stored_before = h \in hist.completed,
                !.cands = {hist.image[h]}]]
  /\ opsLeft' = opsLeft - 1
  /\ UNCHANGED <<ebrVars, pools, meta, regVars, owner_registry, cfg, hist, probe>>

BeginStore(t) ==
  /\ th[t].pc = "idle"
  /\ opsLeft > 0
  /\ \E h \in cfg.handles, r \in cfg.inputs :
       th' = [th EXCEPT ![t] = [IdleThread EXCEPT
                !.pc = "enter_load", !.op = "store", !.account_id = h, !.info = r]]
  /\ opsLeft' = opsLeft - 1
  /\ UNCHANGED <<ebrVars, pools, meta, regVars, owner_registry, cfg, hist, probe>>

(***************************************************************************)
(* AsyncEbr::enter: the epoch load, then the count increment.              *)
(***************************************************************************)
EnterLoad(t) ==
  /\ th[t].pc = "enter_load"
  /\ th' = [th EXCEPT ![t].epoch = current_epoch, ![t].pc = "enter_inc"]
  /\ UNCHANGED <<ebrVars, pools, meta, regVars, owner_registry, cfg, opsLeft, hist, probe>>

EnterInc(t) ==
  /\ th[t].pc = "enter_inc"
  /\ active_counts' = [active_counts EXCEPT ![th[t].epoch] = @ + 1]
  /\ th' = [th EXCEPT ![t].pc = IF th[t].op = "load" THEN "load_meta" ELSE "store_encode"]
  /\ UNCHANGED <<current_epoch, retired, pools, meta, regVars, owner_registry, cfg,
                 opsLeft, hist, probe>>

(***************************************************************************)
(* store: choosing the tier and the payload (lines 132-136).  A token      *)
(* record goes through compress, whose register calls follow as steps.     *)
(***************************************************************************)
StoreEncode(t) ==
  LET rec == th[t]
      data == rec.info.data
  IN  /\ rec.pc = "store_encode"
      /\ th' = [th EXCEPT ![t] =
            IF rec.info.owner = TOKEN_PROGRAM_ID
              THEN IF Len(data) < TOKEN_ACCOUNT_LEN
                     THEN [rec EXCEPT !.pool_id = SHORT_TOKEN_TIER, !.data_buf = data,
                                      !.flags = 0, !.pc = "store_alloc"]
                     ELSE [rec EXCEPT !.reg_keys = compress_keys(data), !.reg_ids = <<>>,
                                      !.reg_ret = "compress", !.pc = "register_read"]
              ELSE [rec EXCEPT !.pool_id = get_pool_id(Len(data)), !.data_buf = data,
                               !.flags = 0, !.pc = "store_alloc"]]
      /\ UNCHANGED <<ebrVars, pools, meta, regVars, owner_registry, cfg, opsLeft, hist,
                     probe>>

(***************************************************************************)
(* PubkeyRegistry::register: the lookup under the read lock, then on a     *)
(* miss the re-check and the insertion under the write lock.               *)
(***************************************************************************)
\* register returned id to its caller: compress, or get_or_register_owner
RegisterReturned(rec, id) ==
  LET ids == Append(rec.reg_ids, id)
      rest == Tail(rec.reg_keys)
  IN  IF rest # <<>>
        THEN [rec EXCEPT !.reg_ids = ids, !.reg_keys = rest, !.pc = "register_read"]
        ELSE IF rec.reg_ret = "compress"
          THEN LET c == compress_pack(rec.info.data, ids)
               IN  [rec EXCEPT !.reg_ids = <<>>, !.reg_keys = <<>>, !.reg_ret = "none",
                               !.pool_id = c.tier, !.data_buf = c.buf, !.flags = c.flags,
                               !.pc = "store_alloc"]
          ELSE [rec EXCEPT !.reg_ids = <<>>, !.reg_keys = <<>>, !.reg_ret = "none",
                           !.owner_account = id, !.scan_i = 0, !.pc = "owner_scan"]

RegisterRead(t) ==
  LET rec == th[t]
      pubkey == Head(rec.reg_keys)
  IN  /\ rec.pc = "register_read"
      /\ IF pubkey \in DOMAIN forward
           THEN /\ th' = [th EXCEPT ![t] = RegisterReturned(rec, forward[pubkey])]
                /\ hist' = [hist EXCEPT !.register_returns =
                                          @ \cup {<<pubkey, forward[pubkey], "read">>}]
           ELSE /\ th' = [th EXCEPT ![t].pc = "register_write"]
                /\ UNCHANGED hist
      /\ UNCHANGED <<ebrVars, pools, meta, regVars, owner_registry, cfg, opsLeft, probe>>

\* register_write without the re-check under the write lock
register_write_unchecked(fwd, rev, pubkey) ==
  [forward |-> (pubkey :> Len(rev)) @@ fwd, reverse |-> Append(rev, pubkey),
   id |-> Len(rev)]

\* the write-locked part of register: the registry afterwards and the id
register_write(fwd, rev, pubkey) ==
  IF pubkey \in DOMAIN fwd
    THEN [forward |-> fwd, reverse |-> rev, id |-> fwd[pubkey]]
    ELSE [forward |-> fwd @@ (pubkey :> Len(rev)), reverse |-> Append(rev, pubkey),
          id |-> Len(rev)]

RegisterWrite(t) ==
  LET rec == th[t]
      pubkey == Head(rec.reg_keys)
      w == register_write(forward, reverse, pubkey)
  IN  /\ rec.pc = "register_write"
      /\ forward' = w.forward
      /\ reverse' = w.reverse
      /\ th' = [th EXCEPT ![t] = RegisterReturned(rec, w.id)]
      /\ hist' = [hist EXCEPT !.register_returns =
                    @ \cup {<<pubkey, w.id,
                              IF pubkey \in DOMAIN forward THEN "recheck" ELSE "insert">>}]
      /\ UNCHANGED <<ebrVars, pools, meta, owner_registry, cfg, opsLeft, probe>>

(***************************************************************************)
(* store: the executable flag, the data slot and the payload copy          *)
(* (lines 138-149).                                                        *)
(***************************************************************************)
\* flags |= 1 when info.executable
store_flags(flags, executable) == IF executable THEN FlagOr(flags, 1) ELSE flags

\* the call get_or_register_owner(info.owner) begins with register(&owner)
CallOwnerRegister(rec) ==
  [rec EXCEPT !.reg_keys = <<rec.info.owner>>, !.reg_ids = <<>>, !.reg_ret = "owner",
              !.pc = "register_read"]

StoreAlloc(t) ==
  LET rec == th[t]
      flags == store_flags(rec.flags, rec.info.executable)
  IN  /\ rec.pc = "store_alloc"
      /\ IF rec.pool_id > 0
           THEN /\ pools' = [pools EXCEPT ![rec.pool_id] = alloc_arena(@, rec.pool_id)]
                /\ th' = [th EXCEPT ![t] =
                            [rec EXCEPT !.flags = flags,
                                        !.data_offset = alloc_idx(pools[rec.pool_id]),
                                        !.pc = "store_copy"]]
           ELSE /\ UNCHANGED pools
                /\ th' = [th EXCEPT ![t] =
                            CallOwnerRegister([rec EXCEPT !.flags = flags,
                                                          !.data_offset = 0])]
      /\ UNCHANGED <<ebrVars, meta, regVars, owner_registry, cfg, opsLeft, hist, probe>>

\* copy_nonoverlapping(data_buf, dest, data_buf.len())
StoreCopy(t) ==
  LET rec == th[t]
  IN  /\ rec.pc = "store_copy"
      /\ pools' = [pools EXCEPT ![rec.pool_id].mem[rec.data_offset] =
                                   Put(@, 0, rec.data_buf)]
      /\ th' = [th EXCEPT ![t] = CallOwnerRegister(rec)]
      /\ UNCHANGED <<ebrVars, meta, regVars, owner_registry, cfg, opsLeft, hist, probe>>

(***************************************************************************)
(* get_or_register_owner: the scan of the owner table, one cell load per   *)
(* step, and the compare_exchange on a cell read as 0.                     *)
(***************************************************************************)
\* the scan moves to the next cell, or falls out of the loop and returns 0
ScanNext(rec) ==
  IF rec.scan_i + 1 >= OwnerTableSize
    THEN [rec EXCEPT !.owner_idx = 0, !.pc = "store_swap"]
    ELSE [rec EXCEPT !.scan_i = @ + 1, !.pc = "owner_scan"]

ScanFound(rec) == [rec EXCEPT !.owner_idx = rec.scan_i, !.pc = "store_swap"]

\* history: the owner_slot each call returned for an IdHandle
OwnerReturned(h, rec) ==
  IF rec.pc = "store_swap"
    THEN [h EXCEPT !.owner_slots = @ \cup {<<rec.owner_account, rec.owner_idx>>}]
    ELSE h

OwnerScan(t) ==
  LET rec == th[t]
      val == owner_registry[rec.scan_i]
      rec2 == IF val = rec.owner_account THEN ScanFound(rec)
              ELSE IF val = 0 THEN [rec EXCEPT !.pc = "owner_cas"]
              ELSE ScanNext(rec)
  IN  /\ rec.pc = "owner_scan"
      /\ th' = [th EXCEPT ![t] = rec2]
      /\ hist' = OwnerReturned(hist, rec2)
      /\ UNCHANGED <<ebrVars, pools, meta, regVars, owner_registry, cfg, opsLeft, probe>>

OwnerCas(t) ==
  LET rec == th[t]
      ok == owner_registry[rec.scan_i] = 0
      rec2 == IF ok THEN ScanFound(rec) ELSE ScanNext(rec)
  IN  /\ rec.pc = "owner_cas"
      /\ owner_registry' = IF ok THEN [owner_registry EXCEPT ![rec.scan_i] = rec.owner_account]
                           ELSE owner_registry
      /\ th' = [th EXCEPT ![t] = rec2]
      /\ hist' = OwnerReturned(hist, rec2)
      /\ UNCHANGED <<ebrVars, pools, meta, regVars, cfg, opsLeft, probe>>

(***************************************************************************)
(* store: the new metadata word, the swap, and the retire of the prior     *)
(* slot (lines 151-191).                                                   *)
(***************************************************************************)
store_new_meta(rec) ==
  [lamports_rent |-> EncodeLamportsRent(rec.info.lamports, rec.info.rent_epoch),
   owner_idx |-> rec.owner_idx,
   data_offset |-> rec.data_offset,
   data_pool_id |-> rec.pool_id,
   flags |-> rec.flags]

\* variant: every prior word that is not zero is retired
retires_old_slot_nonzero(old_meta) == ~MetaIsZero(old_meta)

\* retire_old_slot retires the prior slot (the caller has checked the word # 0)
retires_old_slot(old_meta) ==
  ~MetaIsZero(old_meta) /\ ~(old_meta.data_pool_id = 0 \/ old_meta.data_offset = 0)

\* a load of account_id that has not yet computed its result
LoadPending(rec, account_id) ==
  /\ rec.op = "load"
  /\ rec.account_id = account_id
  /\ rec.pc \in {"enter_load", "enter_inc", "load_meta", "load_owner", "load_data"}

StoreSwap(t) ==
  LET rec == th[t]
      h == rec.account_id
      new_meta == store_new_meta(rec)
      old_meta_val == meta[h]
      image == LoadView(new_meta, owner_registry, reverse, pools)
  IN  /\ rec.pc = "store_swap"
      /\ meta' = [meta EXCEPT ![h] = new_meta]
      /\ th' = [u \in DOMAIN th |->
                  IF u = t
                    THEN [rec EXCEPT !.old_meta = old_meta_val,
                                     !.pc = IF retires_old_slot(old_meta_val)
                                              THEN "store_retire" ELSE "drop_dec"]
                    ELSE IF LoadPending(th[u], h)
                      THEN [th[u] EXCEPT !.cands = @ \cup {image}]
                      ELSE th[u]]
      /\ hist' = [hist EXCEPT !.image[h] = image, !.last_stored[h] = Some(rec.info)]
      /\ UNCHANGED <<ebrVars, pools, regVars, owner_registry, cfg, opsLeft, probe>>

\* history: the threads whose guard is alive when an item enters epoch list
\* e and is bound to e or to the epoch before it; a thread leaves the set
\* when it drops that guard
GuardsAt(e) ==
  {u \in DOMAIN th : GuardLive(th[u]) /\ (th[u].epoch = e \/ (th[u].epoch + 1) % 3 = e)}

GuardDropped(items, t) ==
  [i \in 1..Len(items) |-> [items[i] EXCEPT !.guards = @ \ {t}]]

\* variant: the store retires the slot of the word it has installed
StoreRetireInstalled(t) ==
  LET rec == th[t]
      item == [pool |-> rec.pool_id, offset |-> rec.data_offset,
               guards |-> GuardsAt(rec.epoch)]
  IN  /\ rec.pc = "store_retire"
      /\ retired' = [retired EXCEPT ![rec.epoch] = <<item>> \o @]
      /\ th' = [th EXCEPT ![t].pc = "drop_dec"]
      /\ UNCHANGED <<current_epoch, active_counts, pools, meta, regVars, owner_registry,
                     cfg, opsLeft, hist, probe>>

\* Guard::retire: the item is prepended to the list of the guard's epoch
StoreRetire(t) ==
  LET rec == th[t]
      item == [pool |-> rec.old_meta.data_pool_id, offset |-> rec.old_meta.data_offset,
               guards |-> GuardsAt(rec.epoch)]
  IN  /\ rec.pc = "store_retire"
      /\ retired' = [retired EXCEPT ![rec.epoch] = <<item>> \o @]
      /\ th' = [th EXCEPT ![t].pc = "drop_dec"]
      /\ UNCHANGED <<current_epoch, active_counts, pools, meta, regVars, owner_registry,
                     cfg, opsLeft, hist, probe>>

(***************************************************************************)
(* load (lines 79-127).                                                    *)
(***************************************************************************)
LoadMeta(t) ==
  LET rec == th[t]
      meta_val == meta[rec.account_id]
  IN  /\ rec.pc = "load_meta"
      /\ th' = [th EXCEPT ![t] =
            IF MetaIsZero(meta_val)
              THEN [rec EXCEPT !.result = None, !.pc = "drop_dec"]
              ELSE [rec EXCEPT !.meta_val = meta_val,
                               !.seen_gen = IF meta_val.data_pool_id = 0 THEN 0
                                            ELSE pools[meta_val.data_pool_id].gen[meta_val.data_offset],
                               !.seen_raw = IF meta_val.data_pool_id = 0 THEN <<>>
                                            ELSE pools[meta_val.data_pool_id].mem[meta_val.data_offset],
                               !.pc = "load_owner"]]
      /\ UNCHANGED <<ebrVars, pools, meta, regVars, owner_registry, cfg, opsLeft, hist,
                     probe>>

LoadOwner(t) ==
  LET rec == th[t]
      m == rec.meta_val
      owner_account_id == owner_registry[m.owner_idx]
  IN  /\ rec.pc = "load_owner"
      /\ th' = [th EXCEPT ![t] =
            IF ~RegistryHas(reverse, owner_account_id)
              THEN [rec EXCEPT !.result = None, !.pc = "drop_dec"]
              ELSE LET owner == reverse[owner_account_id + 1]
                   IN  IF m.data_pool_id = 0
                         THEN [rec EXCEPT !.owner = owner,
                                          !.result = load_result(m, owner, <<>>),
                                          !.pc = "drop_dec"]
                         ELSE [rec EXCEPT !.owner = owner, !.pc = "load_data"]]
      /\ UNCHANGED <<ebrVars, pools, meta, regVars, owner_registry, cfg, opsLeft, hist,
                     probe>>

\* history: the slot a load is about to read is on the free list, or has
\* been allocated again since the load read the metadata word
SlotGone(rec) ==
  LET a == pools[rec.meta_val.data_pool_id]
      off == rec.meta_val.data_offset
  IN  off \in FreeList(a) \/ a.gen[off] # rec.seen_gen

LoadData(t) ==
  LET rec == th[t]
      m == rec.meta_val
  IN  /\ rec.pc = "load_data"
      /\ th' = [th EXCEPT ![t] =
                  [rec EXCEPT !.result = load_result(m, rec.owner,
                                           load_data(m, rec.owner, pools, reverse)),
                              !.read_freed = SlotGone(rec),
                              !.read_other = pools[m.data_pool_id].mem[m.data_offset]
                                               # rec.seen_raw,
                              !.seen_raw = <<>>,
                              !.pc = "drop_dec"]]
      /\ UNCHANGED <<ebrVars, pools, meta, regVars, owner_registry, cfg, opsLeft, hist,
                     probe>>

(***************************************************************************)
(* Guard::drop: the count decrement, then try_advance_epoch: the epoch     *)
(* load, the count check, and the compare_exchange with reclaim_epoch.     *)
(***************************************************************************)
\* the call returns once the guard is dropped
Finish(rec) == IdleThread
Completed(h, rec) ==
  IF rec.op = "store" THEN [h EXCEPT !.completed = @ \cup {rec.account_id}] ELSE h

DropDec(t) ==
  /\ th[t].pc = "drop_dec"
  /\ active_counts' = [active_counts EXCEPT ![th[t].epoch] = @ - 1]
  /\ retired' = [e \in 0..2 |-> GuardDropped(retired[e], t)]
  /\ th' = [th EXCEPT ![t].pc = "adv_load"]
  /\ UNCHANGED <<current_epoch, pools, meta, regVars, owner_registry, cfg,
                 opsLeft, hist, probe>>

AdvLoad(t) ==
  /\ th[t].pc = "adv_load"
  /\ th' = [th EXCEPT ![t].curr = current_epoch, ![t].pc = "adv_check"]
  /\ UNCHANGED <<ebrVars, pools, meta, regVars, owner_registry, cfg, opsLeft, hist, probe>>

AdvCheck(t) ==
  LET rec == th[t]
      prev == (rec.curr + 2) % 3
  IN  /\ rec.pc = "adv_check"
      /\ IF active_counts[prev] = 0
           THEN /\ th' = [th EXCEPT ![t].pc = "adv_cas"]
                /\ UNCHANGED hist
           ELSE /\ th' = [th EXCEPT ![t] = Finish(rec)]
                /\ hist' = Completed(hist, rec)
      /\ UNCHANGED <<ebrVars, pools, meta, regVars, owner_registry, cfg, opsLeft, probe>>

\* reclaim_epoch: each item's destructor frees its slot, head of the list first
RECURSIVE reclaim_epoch(_, _)
reclaim_epoch(pls, items) ==
  IF items = <<>> THEN pls
  ELSE LET item == Head(items)
       IN  reclaim_epoch([pls EXCEPT ![item.pool] = free_arena(@, item.offset)],
                         Tail(items))

\* history: the guards named by the reclaimed items, all of them still alive
StillLive(items) == UNION {items[i].guards : i \in 1..Len(items)}

\* variant: the epoch advances and the list of the previous epoch is kept
AdvCasKeep(t) ==
  LET rec == th[t]
      next == (rec.curr + 1) % 3
  IN  /\ rec.pc = "adv_cas"
      /\ current_epoch' = IF current_epoch = rec.curr THEN next ELSE current_epoch
      /\ hist' = Completed(hist, rec)
      /\ th' = [th EXCEPT ![t] = Finish(rec)]
      /\ UNCHANGED <<active_counts, retired, pools, meta, regVars, owner_registry, cfg,
                     opsLeft, probe>>

AdvCas(t) ==
  LET rec == th[t]
      next == (rec.curr + 1) % 3
      prev == (rec.curr + 2) % 3
  IN  /\ rec.pc = "adv_cas"
      /\ IF current_epoch = rec.curr
           THEN /\ current_epoch' = next
                /\ pools' = reclaim_epoch(pools, retired[prev])
                /\ retired' = [retired EXCEPT ![prev] = <<>>]
                /\ hist' = [Completed(hist, rec) EXCEPT
                              !.reclaimed_live = @ \cup StillLive(retired[prev])]
           ELSE /\ UNCHANGED <<current_epoch, pools, retired>>
                /\ hist' = Completed(hist, rec)
      /\ th' = [th EXCEPT ![t] = Finish(rec)]
      /\ UNCHANGED <<active_counts, meta, regVars, owner_registry, cfg, opsLeft, probe>>

(***************************************************************************)
(* Next-state relation of the store: any thread takes its next step.       *)
(***************************************************************************)
Next ==
  \/ \E t \in DOMAIN th : BeginLoad(t)
  \/ \E t \in DOMAIN th : BeginStore(t)
  \/ \E t \in DOMAIN th : EnterLoad(t)
  \/ \E t \in DOMAIN th : EnterInc(t)
  \/ \E t \in DOMAIN th : StoreEncode(t)
  \/ \E t \in DOMAIN th : RegisterRead(t)
  \/ \E t \in DOMAIN th : RegisterWrite(t)
  \/ \E t \in DOMAIN th : StoreAlloc(t)
  \/ \E t \in DOMAIN th : StoreCopy(t)
  \/ \E t \in DOMAIN th : OwnerScan(t)
  \/ \E t \in DOMAIN th : OwnerCas(t)
  \/ \E t \in DOMAIN th : StoreSwap(t)
  \/ \E t \in DOMAIN th : StoreRetire(t)
  \/ \E t \in DOMAIN th : LoadMeta(t)
  \/ \E t \in DOMAIN th : LoadOwner(t)
  \/ \E t \in DOMAIN th : LoadData(t)
  \/ \E t \in DOMAIN th : DropDec(t)
  \/ \E t \in DOMAIN th : AdvLoad(t)
  \/ \E t \in DOMAIN th : AdvCheck(t)
  \/ \E t \in DOMAIN th : AdvCas(t)

(***************************************************************************)
(* Workloads.                                                              *)
(***************************************************************************)
OWNER_A == PK(1)
OWNER_B == PK(2)
MINT_1 == PK(11)
WALLET_1 == PK(12)
DELEGATE_1 == PK(13)
CLOSE_AUTH_1 == PK(14)

\* lamports = 0, rent_epoch = 0, empty data, executable = false
REC_ZERO == AccountInfo(U64_ZERO, OWNER_A, <<>>, U64_ZERO, FALSE)
\* 16 bytes of data: exactly a tier-1 slot
REC_A == AccountInfo(U64Of(500), OWNER_A, Bytes(16, 10), U64Of(7), TRUE)
REC_B == AccountInfo(U64Of(3), OWNER_B, Bytes(16, 20), U64_ZERO, FALSE)
REC_ZERO_B == AccountInfo(U64_ZERO, OWNER_B, <<>>, U64_ZERO, FALSE)
\* 5 bytes of data, no lamports, a rent epoch
REC_SHORT == AccountInfo(U64_ZERO, OWNER_B, Bytes(5, 30), U64Of(9), FALSE)

\* token accounts: tier 1 in state 1 and in state 0, tier 2, tier 3
TOKEN_T1_S1 ==
  TokenData(MINT_1, WALLET_1, U64Of(1000), 0, PubkeyDefault, 1, 0, U64_ZERO, U64_ZERO, 0,
            PubkeyDefault)
TOKEN_T1_S0 ==
  TokenData(MINT_1, WALLET_1, U64Of(1000), 0, PubkeyDefault, 0, 0, U64_ZERO, U64_ZERO, 0,
            PubkeyDefault)
TOKEN_T2_S2 ==
  TokenData(MINT_1, WALLET_1, U64Of(77), 0, PubkeyDefault, 2, 1, U64Of(42), U64_ZERO, 0,
            PubkeyDefault)
TOKEN_T3_S2 ==
  TokenData(MINT_1, WALLET_1, U64Of(5), 1, DELEGATE_1, 2, 0, U64_ZERO, U64Of(7), 1,
            CLOSE_AUTH_1)
REC_TOKEN(data, executable) ==
  AccountInfo(U64Of(2039280), TOKEN_PROGRAM_ID, data, U64_ZERO, executable)

(***************************************************************************)
(* Spec: two threads call load and store on one handle.                    *)
(***************************************************************************)
Threads == {1, 2}
Handles == {1}
ConcInputs == {REC_A, REC_ZERO_B}

Init == InitStore(Threads, ConcInputs, Handles, MaxOps)
Spec == Init /\ [][Next]_vars

(***************************************************************************)
(* SpecOwners: two threads store records of two owners on two handles.     *)
(***************************************************************************)
OwnerHandles == {1, 2}
OwnerInputs == {REC_ZERO, REC_B}

InitOwners == InitStore(Threads, OwnerInputs, OwnerHandles, MaxOwnerOps)
SpecOwners == InitOwners /\ [][Next]_vars

(***************************************************************************)
(* SpecSeq: one thread, one handle, calls one after the other.             *)
(***************************************************************************)
SeqInputs ==
  {REC_A, REC_SHORT,
   REC_TOKEN(TOKEN_T1_S1, FALSE), REC_TOKEN(TOKEN_T1_S0, TRUE),
   REC_TOKEN(TOKEN_T2_S2, FALSE), REC_TOKEN(TOKEN_T3_S2, FALSE)}

InitSeq == InitStore({1}, SeqInputs, Handles, MaxSeqOps)
SpecSeq == InitSeq /\ [][Next]_vars

(***************************************************************************)
(* SpecFn: calls of the pure functions.  compress is the composition of    *)
(* its parts with its register calls, run without interleaving.            *)
(***************************************************************************)
\* register, from the read-locked lookup to the return
register(fwd, rev, pubkey) ==
  IF pubkey \in DOMAIN fwd
    THEN [forward |-> fwd, reverse |-> rev, id |-> fwd[pubkey]]
    ELSE register_write(fwd, rev, pubkey)

RECURSIVE register_all(_, _, _, _)
register_all(fwd, rev, keys, ids) ==
  IF keys = <<>> THEN [forward |-> fwd, reverse |-> rev, ids |-> ids]
  ELSE LET r == register(fwd, rev, Head(keys))
       IN  register_all(r.forward, r.reverse, Tail(keys), Append(ids, r.id))

compress(data, fwd, rev) ==
  IF Len(data) < TOKEN_ACCOUNT_LEN
    THEN [tier |-> SHORT_TOKEN_TIER, buf |-> data, flags |-> 0,
          forward |-> fwd, reverse |-> rev]
    ELSE LET r == register_all(fwd, rev, compress_keys(data), <<>>)
             c == compress_pack(data, r.ids)
         IN  [tier |-> c.tier, buf |-> c.buf, flags |-> c.flags,
              forward |-> r.forward, reverse |-> r.reverse]

\* token accounts of every state, tag and amount combination; an absent
\* optional field is all zero
TokenOf(state, dtag, ntag, ctag, damt) ==
  TokenData(MINT_1, WALLET_1, U64_MAX,
            dtag, IF dtag = 1 THEN DELEGATE_1 ELSE PubkeyDefault,
            state,
            ntag, IF ntag = 1 THEN U64Of(42) ELSE U64_ZERO,
            damt,
            ctag, IF ctag = 1 THEN CLOSE_AUTH_1 ELSE PubkeyDefault)

PackedTokens ==
  {TokenOf(state, dtag, ntag, ctag, damt) :
     state \in {0, 1, 2}, dtag \in {0, 1}, ntag \in {0, 1}, ctag \in {0, 1},
     damt \in {U64_ZERO, U64Of(7)}}

\* token accounts whose tag is 0 over a field that is not zero
TOKEN_STALE_DELEGATE ==
  TokenData(MINT_1, WALLET_1, U64Of(5), 0, DELEGATE_1, 1, 0, U64_ZERO, U64_ZERO, 0,
            PubkeyDefault)
TOKEN_STALE_NATIVE ==
  TokenData(MINT_1, WALLET_1, U64Of(5), 0, PubkeyDefault, 1, 0, U64Of(42), U64_ZERO, 0,
            PubkeyDefault)
TOKEN_STALE_CLOSE ==
  TokenData(MINT_1, WALLET_1, U64Of(5), 1, DELEGATE_1, 2, 0, U64_ZERO, U64_ZERO, 0,
            CLOSE_AUTH_1)

\* a token account followed by 5 more bytes
TOKEN_LONG == TOKEN_T3_S2 \o <<1, 2, 3, 4, 5>>

FnTokens ==
  PackedTokens
    \cup {TOKEN_STALE_DELEGATE, TOKEN_STALE_NATIVE, TOKEN_STALE_CLOSE, TOKEN_LONG}

\* one call at a time: a call is made when the last one has returned
FnGetPoolId ==
  /\ probe.fn = "none"
  /\ \E len \in 0..MaxLen :
       probe' = [fn |-> "get_pool_id", len |-> len, out |-> get_pool_id(len)]
  /\ UNCHANGED <<ebrVars, pools, meta, regVars, owner_registry, th, cfg, opsLeft, hist>>

\* compress(data, registry), then decompress of what it returned
FnCompress ==
  /\ probe.fn = "none"
  /\ \E data \in FnTokens :
       LET c == compress(data, forward, reverse)
       IN  /\ forward' = c.forward
           /\ reverse' = c.reverse
           /\ probe' = [fn |-> "compress", data |-> data, tier |-> c.tier,
                        buf |-> c.buf, flags |-> c.flags,
                        out |-> decompress(c.tier, c.buf, c.flags, c.reverse)]
  /\ UNCHANGED <<ebrVars, pools, meta, owner_registry, th, cfg, opsLeft, hist>>

FnReturn ==
  /\ probe.fn # "none"
  /\ probe' = [fn |-> "none"]
  /\ UNCHANGED <<ebrVars, pools, meta, regVars, owner_registry, th, cfg, opsLeft, hist>>

InitFn == InitStore({}, {}, {}, 0)
NextFn == FnGetPoolId \/ FnCompress \/ FnReturn
SpecFn == InitFn /\ [][NextFn]_vars

(***************************************************************************)
(* SpecWord: the metadata word store builds (lines 151-166), for lamports  *)
(* 0, 2^k and 2^k - 1 and rent epochs 0..MaxRentEpoch, 2^12 - 1, 2^64 - 1. *)
(***************************************************************************)
\* 2^k - 1 and 2^(k-1) as u64
U64Low(k) == [i \in 1..64 |-> IF i <= k THEN 1 ELSE 0]
U64Bit(k) == [i \in 1..64 |-> IF i = k THEN 1 ELSE 0]

LamportSamples == {U64Low(k) : k \in 1..64} \cup {U64Bit(k) : k \in 1..64}
WordInputs ==
  ({U64_ZERO} \X ({U64Of(r) : r \in 0..MaxRentEpoch} \cup {U64_MAX}))
    \cup (LamportSamples \X {U64_ZERO, U64Low(12), U64Bit(13), U64_MAX})

FnNewMeta ==
  /\ probe.fn = "none"
  /\ \E in \in WordInputs :
       LET info == AccountInfo(in[1], OWNER_A, <<>>, in[2], FALSE)
       IN  probe' = [fn |-> "new_meta", lamports |-> in[1], rent_epoch |-> in[2],
                     word |-> store_new_meta([IdleThread EXCEPT !.info = info])]
  /\ UNCHANGED <<ebrVars, pools, meta, regVars, owner_registry, th, cfg, opsLeft, hist>>

NextWord == FnNewMeta \/ FnReturn
SpecWord == InitFn /\ [][NextWord]_vars

(***************************************************************************)
(* SpecOverwrite: one handle overwritten with payloads of one tier (16      *)
(* bytes), by two threads that also load it.                               *)
(***************************************************************************)
OverwriteInputs == {REC_A, REC_B}
InitOverwrite == InitStore(Threads, OverwriteInputs, Handles, MaxOps)
SpecOverwrite == InitOverwrite /\ [][Next]_vars

(***************************************************************************)
(* SpecShort: one thread storing and loading short records, one of them    *)
(* owned by the token program.                                             *)
(***************************************************************************)
REC_SHORT_TOKEN == REC_TOKEN(Bytes(5, 40), FALSE)
ShortInputs == {REC_SHORT_TOKEN, REC_SHORT, REC_A}
InitShort == InitStore({1}, ShortInputs, Handles, MaxSeqOps)
SpecShort == InitShort /\ [][Next]_vars

(***************************************************************************)
(* SpecArena: alloc and free calls on one SubArena (the arena of tier 1),  *)
(* by callers that write into the slots they hold.  The arena is reserved  *)
(* for ArenaSlots slots: capacity = reserved_size / slot_size = ArenaSlots.*)
(* probe records the last call: the arena and the held slots before it;    *)
(* opsLeft counts the alloc calls still to be made.                        *)
(***************************************************************************)
ARENA_POOL == 1

ArenaAlloc ==
  /\ opsLeft > 0
  /\ Cardinality(probe.held) < ArenaSlots
  /\ opsLeft' = opsLeft - 1
  /\ pools' = [pools EXCEPT ![ARENA_POOL] = alloc_arena(@, ARENA_POOL)]
  /\ probe' = [fn |-> "alloc", idx |-> alloc_idx(pools[ARENA_POOL]),
                before |-> pools[ARENA_POOL], was_held |-> probe.held,
                held |-> probe.held \cup {alloc_idx(pools[ARENA_POOL])}]
  /\ UNCHANGED <<ebrVars, meta, regVars, owner_registry, th, cfg, hist>>

\* the holder of slot idx fills it
ArenaWrite ==
  /\ \E idx \in probe.held :
       /\ pools' = [pools EXCEPT ![ARENA_POOL].mem[idx] =
                                   Put(@, 0, Bytes(SlotSize(ARENA_POOL), 50))]
       /\ probe' = [fn |-> "write", idx |-> idx, before |-> pools[ARENA_POOL],
                     was_held |-> probe.held, held |-> probe.held]
  /\ UNCHANGED <<ebrVars, meta, regVars, owner_registry, th, cfg, opsLeft, hist>>

\* free of a held slot, or free(0)
ArenaFree ==
  /\ \E idx \in probe.held \cup {0} :
       /\ pools' = [pools EXCEPT ![ARENA_POOL] = free_arena(@, idx)]
       /\ probe' = [fn |-> "free", idx |-> idx, before |-> pools[ARENA_POOL],
                     was_held |-> probe.held, held |-> probe.held \ {idx}]
  /\ UNCHANGED <<ebrVars, meta, regVars, owner_registry, th, cfg, opsLeft, hist>>

InitArena ==
  /\ current_epoch = 0
  /\ active_counts = [e \in 0..2 |-> 0]
  /\ retired = [e \in 0..2 |-> <<>>]
  /\ pools = [p \in 0..15 |-> SubArena_new]
  /\ meta = <<>>
  /\ forward = <<>>
  /\ reverse = <<>>
  /\ owner_registry = [i \in 0..(OwnerTableSize - 1) |-> 0]
  /\ th = <<>>
  /\ cfg = [inputs |-> {}, handles |-> {}]
  /\ opsLeft = MaxArenaOps
  /\ hist = [image |-> <<>>, last_stored |-> <<>>, completed |-> {}, owner_slots |-> {},
             register_returns |-> {}, reclaimed_live |-> {}]
  /\ probe = [fn |-> "none", idx |-> 0, before |-> SubArena_new, was_held |-> {},
               held |-> {}]
NextArena == ArenaAlloc \/ ArenaWrite \/ ArenaFree
SpecArena == InitArena /\ [][NextArena]_vars

(***************************************************************************)
(* SpecOwnerFull: one thread storing records of four owners, one more      *)
(* than the owner table has cells.                                         *)
(***************************************************************************)
OWNER_C == PK(3)
OWNER_D == PK(4)
REC_C == AccountInfo(U64Of(1), OWNER_C, Bytes(16, 60), U64_ZERO, FALSE)
REC_D == AccountInfo(U64Of(1), OWNER_D, Bytes(16, 80), U64_ZERO, FALSE)
OwnerFullInputs == {REC_A, REC_B, REC_C, REC_D}
InitOwnerFull == InitStore({1}, OwnerFullInputs, Handles, MaxFullOps)
SpecOwnerFull == InitOwnerFull /\ [][Next]_vars

(***************************************************************************)
(* SpecSlots: two threads store records with and without data on two       *)
(* handles.                                                                *)
(***************************************************************************)
InitSlots == InitStore(Threads, ConcInputs, OwnerHandles, MaxOps)
SpecSlots == InitSlots /\ [][Next]_vars

(***************************************************************************)
(* SpecLive: a writer thread makes MaxLiveOps calls of store on one handle *)
(* while a reader thread calls load for ever.  Scheduling is fair: a       *)
(* thread inside a call takes its next step, and the idle reader calls     *)
(* again.                                                                  *)
(***************************************************************************)
\* a further call of load, not counted in opsLeft
BeginLoadAgain(t) ==
  /\ th[t].pc = "idle"
  /\ \E h \in cfg.handles :
       th' = [th EXCEPT ![t] = [IdleThread EXCEPT
                !.pc = "enter_load", !.op = "load", !.account_id = h,
                !.stored_before = h \in hist.completed,
                !.cands = {hist.image[h]}]]
  /\ UNCHANGED <<ebrVars, pools, meta, regVars, owner_registry, cfg, opsLeft, hist, probe>>

\* the next step of thread t inside its call
ThreadStep(t) ==
  \/ EnterLoad(t) \/ EnterInc(t) \/ StoreEncode(t) \/ RegisterRead(t)
  \/ RegisterWrite(t) \/ StoreAlloc(t) \/ StoreCopy(t) \/ OwnerScan(t)
  \/ OwnerCas(t) \/ StoreSwap(t) \/ StoreRetire(t) \/ LoadMeta(t)
  \/ LoadOwner(t) \/ LoadData(t) \/ DropDec(t) \/ AdvLoad(t) \/ AdvCheck(t)
  \/ AdvCas(t)

LiveInputs == {REC_A, REC_B}
InitLive == InitStore(Threads, LiveInputs, Handles, MaxLiveOps)
Writers == {1}
Readers == {2}
NextLive ==
  \/ \E t \in Writers : BeginStore(t)
  \/ \E t \in Readers : BeginLoadAgain(t)
  \/ \E t \in DOMAIN th : ThreadStep(t)
FairLive ==
  /\ \A t \in Threads : WF_vars(ThreadStep(t))
  /\ \A t \in Readers : WF_vars(BeginLoadAgain(t))
SpecLive == InitLive /\ [][NextLive]_vars /\ FairLive

(***************************************************************************)
(* Properties.                                                             *)
(***************************************************************************)

\* C1 (slot safety): no load reads a data slot that is on its arena's free
\* list, or that has been allocated again since the load read the metadata
\* word, while the load's guard is alive.  read_freed records what the read
\* of the slot (LoadData, inside the guard) found.
C1_SlotSafety == \A t \in DOMAIN th : ~th[t].read_freed

\* C2 (reclamation guarantee): no item that entered the list of epoch e, or
\* of the epoch after e, while a guard bound to e was alive is reclaimed
\* before that guard is dropped.  reclaimed_live collects the guards that
\* were still alive when reclaim_epoch ran the destructor of such an item.
C2_ReclamationGuarantee == hist.reclaimed_live = {}

\* C3 (isolation): a load returns the value its handle held when the load
\* began, or the value of a store whose swap happened during the load
\* (cands), whole: never a record that is none of these.
C3_Isolation ==
  \A t \in DOMAIN th :
    (th[t].op = "load" /\ th[t].pc = "drop_dec") => th[t].result \in th[t].cands

\* the record returned by a load that has computed its result
Loaded(t) == th[t].op = "load" /\ th[t].pc = "drop_dec"
\* rent_epoch as the encoding rule reports it
RentRule(r) == IF U64Gt0(r.lamports) THEN U64_MAX ELSE r.rent_epoch

\* C4 (round trip): store(h, r) followed by load(h), with no other store to
\* h in between, returns Some(r') with r's lamports, owner, data (length
\* and bytes) and executable, and r's rent epoch under the encoding rule.
\* Checked where calls run one after the other (SpecSeq).
C4_RoundTrip ==
  \A t \in DOMAIN th :
    (Loaded(t) /\ hist.last_stored[th[t].account_id].some) =>
      LET r == hist.last_stored[th[t].account_id].val
          g == th[t].result
      IN  /\ g.some
          /\ g.val.lamports = r.lamports
          /\ g.val.owner = r.owner
          /\ g.val.data = r.data
          /\ g.val.executable = r.executable
          /\ g.val.rent_epoch = RentRule(r)

\* C5 (flag orthogonality): for a stored token record, load decodes the data
\* that the flags returned by compress decode (executable changes no decoded
\* byte, in particular not the state byte at offset 108), and the loaded
\* executable is the stored executable.
C5_FlagOrthogonality ==
  \A t \in DOMAIN th :
    LET h == th[t].account_id
        r == hist.last_stored[h].val
        m == meta[h]
    IN  (Loaded(t) /\ hist.last_stored[h].some /\ r.owner = TOKEN_PROGRAM_ID
         /\ Len(r.data) = TOKEN_ACCOUNT_LEN /\ th[t].result.some) =>
          /\ th[t].result.val.data =
               decompress(m.data_pool_id, pools[m.data_pool_id].mem[m.data_offset],
                          compress_flags(r.data), reverse)
          /\ th[t].result.val.data[109] = r.data[109]
          /\ th[t].result.val.executable = r.executable

\* C6 (owner-slot stability): the owner_slot in an installed metadata word
\* designates the cell that holds the IdHandle of the stored record's owner;
\* get_or_register_owner gives one IdHandle one owner_slot, and two
\* IdHandles two owner_slots.
C6_OwnerSlotStable ==
  /\ \A h \in DOMAIN meta :
       hist.last_stored[h].some =>
         owner_registry[meta[h].owner_idx] = forward[hist.last_stored[h].val.owner]
  /\ \A p, q \in hist.owner_slots : (p[1] = q[1]) <=> (p[2] = q[2])

\* C7 (presence): a load(H) that begins after some store(H, r) has completed
\* returns a value, for every record r; and a load that returns a value
\* follows the swap of some store(H, r).
C7_Presence ==
  \A t \in DOMAIN th :
    Loaded(t) =>
      /\ th[t].stored_before => th[t].result.some
      /\ th[t].result.some => hist.last_stored[th[t].account_id].some

\* C9 (identifier stability): every register call for one identifier
\* returns the same handle, and get_pubkey of every returned handle is that
\* identifier, in every later state.
C9_IdentifierStability ==
  /\ \A p, q \in hist.register_returns : p[1] = q[1] => p[2] = q[2]
  /\ \A p \in hist.register_returns :
       RegistryHas(reverse, p[2]) /\ reverse[p[2] + 1] = p[1]

\* two register calls for one identifier raced: one of them found the
\* identifier only at its re-check under the write lock, and both returned
C9_Witness ==
  \E p, q \in hist.register_returns :
    p[1] = q[1] /\ p[3] = "recheck" /\ q[3] = "insert"

\* the smallest tier index whose size is at least n, or 15 when there is none
SmallestTier(n) ==
  IF \E i \in 0..15 : TIER_SIZES[i + 1] >= n
    THEN CHOOSE i \in 0..15 :
           /\ TIER_SIZES[i + 1] >= n
           /\ \A j \in 0..15 : TIER_SIZES[j + 1] >= n => i <= j
    ELSE 15

\* C10 (tier monotonicity): get_pool_id(n) is the smallest i in 0..15 with
\* TIER_SIZES[i] >= n, and 15 when no tier size is >= n.
C10_TierMonotonicity ==
  probe.fn = "get_pool_id" => probe.out = SmallestTier(probe.len)

\* get_pool_id was called with a length above every tier size
C10_Witness == probe.fn = "get_pool_id" /\ probe.len > TIER_SIZES[16] /\ probe.out = 15

\* state in {0,1,2} and each of the three tags in {0,1}
WellFormedToken(x) ==
  /\ Len(x) = TOKEN_ACCOUNT_LEN
  /\ x[109] \in {0, 1, 2}
  /\ u32_from_le_bytes(Slice(x, 72, 76)) \in {0, 1}
  /\ u32_from_le_bytes(Slice(x, 109, 113)) \in {0, 1}
  /\ u32_from_le_bytes(Slice(x, 129, 133)) \in {0, 1}

\* the delegate, native amount and close authority are zero when absent
AbsentFieldsZero(x) ==
  /\ ~TokenHasDelegate(x) => Slice(x, 76, 108) = Zeros(32)
  /\ ~TokenIsNative(x) => Slice(x, 113, 121) = Zeros(8)
  /\ ~TokenHasCloseAuth(x) => Slice(x, 133, 165) = Zeros(32)

\* C8 as stated (compressor invertibility): for every 165-byte token record
\* x with state in {0,1,2} and every tag in {0,1}, decompress(compress(x)),
\* with the tier and flags compress returned and the same registry, is x.
C8_Invertible_AsStated ==
  (probe.fn = "compress" /\ WellFormedToken(probe.data)) => probe.out = probe.data

\* C8 amended: the same, for the records whose delegate, native amount and
\* close authority bytes are zero when the field's tag is 0.
C8_Invertible ==
  (probe.fn = "compress" /\ WellFormedToken(probe.data) /\ AbsentFieldsZero(probe.data))
    => probe.out = probe.data

\* a tier-3 record with a delegate and a close authority was compressed and
\* decompressed
C8_Witness ==
  /\ probe.fn = "compress"
  /\ WellFormedToken(probe.data) /\ AbsentFieldsZero(probe.data)
  /\ probe.tier = 3
  /\ TokenHasDelegate(probe.data) /\ TokenHasCloseAuth(probe.data)
  /\ probe.out = probe.data

\* every thread has returned from its call
Quiescent == \A t \in DOMAIN th : th[t].pc = "idle"

RECURSIVE SeqSum(_)
SeqSum(q) == IF q = <<>> THEN 0 ELSE Head(q) + SeqSum(Tail(q))

\* the allocations made in pool p: one by each store of a payload of tier p
PoolAllocs(p) == SeqSum(pools[p].gen)

\* the slots of pool p in the retired lists, and those the metadata words reference
RetiredSlots(p) ==
  UNION {{retired[e][i].offset : i \in {j \in DOMAIN retired[e] : retired[e][j].pool = p}} :
           e \in 0..2}
LiveSlots(p) == {meta[h].data_offset : h \in {k \in DOMAIN meta : meta[k].data_pool_id = p}}

\* C11 as stated (free-list accounting): when n stores of payloads of one
\* tier have been made to one handle and every thread has finished, the
\* free list of that tier's arena has exactly n-1 slots.
C11_FreeListAccounting_AsStated ==
  \A p \in 1..15 :
    (Quiescent /\ PoolAllocs(p) >= 1) =>
      Cardinality(FreeList(pools[p])) = PoolAllocs(p) - 1

\* C11 amended: when n stores of payloads of one tier have been made to one
\* handle and every thread has finished, every slot the arena has handed
\* out is exactly one of: the slot the handle's word references, a slot on
\* the free list, a slot in an epoch's retired list; the free list has at
\* most n-1 slots.
C11_FreeListAccounting ==
  \A p \in 1..15 :
    (Quiescent /\ PoolAllocs(p) >= 1) =>
      LET free == FreeList(pools[p])
          handed == 1..(pools[p].next_index - 1)
      IN  /\ Cardinality(LiveSlots(p)) = 1
          /\ LiveSlots(p) \cup free \cup RetiredSlots(p) = handed
          /\ LiveSlots(p) \cap free = {}
          /\ LiveSlots(p) \cap RetiredSlots(p) = {}
          /\ free \cap RetiredSlots(p) = {}
          /\ Cardinality(free) <= PoolAllocs(p) - 1

\* three stores have finished: one replaced slot is on the free list and one
\* is still in a retired list
C11_Witness ==
  /\ Quiescent
  /\ PoolAllocs(1) = 3
  /\ Cardinality(FreeList(pools[1])) = 1
  /\ Cardinality(RetiredSlots(1)) = 1

\* C12 (tier selection): for every token record of length >= 165, compress
\* returns tier 1 exactly when none of has_delegate, has_close_auth,
\* has_del_amt, is_native holds, tier 2 exactly when is_native holds and
\* none of the other three, tier 3 otherwise, with a payload of 16, 32 or
\* 48 bytes.
C12_TierSelection ==
  (probe.fn = "compress" /\ Len(probe.data) >= TOKEN_ACCOUNT_LEN) =>
    LET d == probe.data
        others == TokenHasDelegate(d) \/ TokenHasCloseAuth(d) \/ TokenHasDelAmt(d)
    IN  /\ probe.tier = 1 <=> (~others /\ ~TokenIsNative(d))
        /\ probe.tier = 2 <=> (~others /\ TokenIsNative(d))
        /\ probe.tier = 3 <=> others
        /\ Len(probe.buf) = 16 * probe.tier

\* compress was given a native account that has a delegate, and took tier 3
C12_Witness ==
  /\ probe.fn = "compress"
  /\ TokenIsNative(probe.data) /\ TokenHasDelegate(probe.data)
  /\ probe.tier = 3 /\ Len(probe.buf) = 48

\* C13 (short token-owned records): a record owned by TOKEN_PROGRAM_ID with
\* fewer than 165 data bytes is stored verbatim in the tier get_pool_id
\* gives for its length, and its flags carry no compressor state.
C13_ShortTokenRecord ==
  \A h \in DOMAIN meta :
    LET r == hist.last_stored[h].val
    IN  (/\ hist.last_stored[h].some
         /\ r.owner = TOKEN_PROGRAM_ID
         /\ Len(r.data) < TOKEN_ACCOUNT_LEN)
        => /\ meta[h].data_pool_id = get_pool_id(Len(r.data))
           /\ meta[h].flags = store_flags(0, r.executable)
           /\ meta[h].data_pool_id # 0 =>
                Slice(pools[meta[h].data_pool_id].mem[meta[h].data_offset], 0, Len(r.data))
                  = r.data

\* enter() has read current_epoch for the guard of thread t, and the guard
\* has not yet been dropped
GuardEntered(rec) == rec.pc \notin {"idle", "enter_load", "adv_load", "adv_check", "adv_cas"}

\* C14 (one advance per guard): between the epoch load of a guard's enter()
\* and the drop of that guard, current_epoch is advanced at most once: it is
\* never two advances past the epoch the guard read.
C14_OneAdvancePerGuard ==
  \A t \in DOMAIN th :
    GuardEntered(th[t]) => current_epoch # (th[t].epoch + 2) % 3

\* C15 (capacity exhaustion): alloc never returns a slot index at or beyond
\* capacity = reserved_size / slot_size.
C15_CapacityFatal ==
  probe.fn = "alloc" => probe.idx < ArenaSlots

\* C19 (arena allocation): alloc returns a non-zero index that no caller
\* holds, the free-list head when free_head # 0 and next_index otherwise,
\* and the slot returned is all zero; free(0) changes nothing.
C19_ArenaAllocation ==
  /\ probe.fn = "alloc" =>
       /\ probe.idx # 0
       /\ probe.idx \notin probe.was_held
       /\ probe.idx = IF probe.before.free_head # 0 THEN probe.before.free_head
                      ELSE probe.before.next_index
       /\ pools[ARENA_POOL].mem[probe.idx] = Zeros(SlotSize(ARENA_POOL))
  /\ (probe.fn = "free" /\ probe.idx = 0) => pools[ARENA_POOL] = probe.before

\* alloc handed out a slot that had been written, freed and linked to
\* another free slot
C19_Witness ==
  /\ probe.fn = "alloc"
  /\ probe.before.free_head = probe.idx
  /\ probe.before.mem[probe.idx] # Zeros(SlotSize(ARENA_POOL))
  /\ pools[ARENA_POOL].free_head # 0

\* no owner-table cell holds id and no cell is vacant
NoCellFor(id) == \A i \in DOMAIN owner_registry : owner_registry[i] \notin {0, id}

\* C16 (owner-table overflow): a store whose owner's IdHandle is in no cell
\* of the owner table, when no cell is vacant, does not write a metadata
\* word whose owner_slot designates a cell that holds another IdHandle.
C16_OwnerOverflowFatal ==
  \A t \in DOMAIN th :
    ~ /\ th[t].op = "store"
      /\ th[t].pc \in {"store_retire", "drop_dec"}
      /\ NoCellFor(th[t].owner_account)
      /\ owner_registry[meta[th[t].account_id].owner_idx] # th[t].owner_account

\* the number of elements of the sequence q that satisfy Test
Count(q, Test(_)) == Cardinality({i \in DOMAIN q : Test(q[i])})

\* a store that has allocated slot s of pool p and not yet swapped its word in
AllocatedBy(rec, p, s) ==
  /\ rec.op = "store"
  /\ rec.pc \notin {"enter_load", "enter_inc", "store_encode", "store_alloc",
                    "store_retire", "drop_dec", "adv_load", "adv_check", "adv_cas"}
  /\ rec.pool_id = p /\ rec.data_offset = s

\* a store that has swapped out a word that references slot s of pool p and
\* not yet retired it
SwappedOutBy(rec, p, s) ==
  /\ rec.op = "store" /\ rec.pc = "store_retire"
  /\ rec.old_meta.data_pool_id = p /\ rec.old_meta.data_offset = s

\* the places that hold slot s of pool p: the metadata words, the stores
\* between alloc and swap and between swap and retire, the entries of the
\* retired lists, the free list
Holders(p, s) ==
  LET IsSlot(item) == item.pool = p /\ item.offset = s
  IN  Cardinality({h \in DOMAIN meta :
                     meta[h].data_pool_id = p /\ meta[h].data_offset = s})
      + Cardinality({t \in DOMAIN th : AllocatedBy(th[t], p, s)})
      + Cardinality({t \in DOMAIN th : SwappedOutBy(th[t], p, s)})
      + Count(retired[0], IsSlot) + Count(retired[1], IsSlot) + Count(retired[2], IsSlot)
      + (IF s \in FreeList(pools[p]) THEN 1 ELSE 0)

\* C17 (retire exactly once): a store retires exactly the swapped-out words
\* that are non-zero with pool_id # 0 and data_offset # 0, so that under
\* every interleaving of stores to the same or to different handles each
\* slot an arena has handed out is held in exactly one place (a metadata
\* word, a store in progress, one entry of a retired list, or the free
\* list), every retired entry names such a slot, and each arena has
\* counted one free per slot on its free list.
C17_RetireExactlyOnce ==
  /\ \A p \in 1..15 : \A s \in 1..(pools[p].next_index - 1) : Holders(p, s) = 1
  /\ \A e \in 0..2 : \A i \in DOMAIN retired[e] :
       /\ retired[e][i].pool \in 1..15
       /\ retired[e][i].offset \in 1..(pools[retired[e][i].pool].next_index - 1)
  /\ \A p \in 0..15 :
       pools[p].active_count = pools[p].next_index - 1 - Cardinality(FreeList(pools[p]))

\* a replaced slot has been retired, freed and allocated again, and is
\* referenced by one handle while the other handle references another slot
C17_Witness ==
  /\ Quiescent
  /\ meta[1].data_pool_id = 1 /\ meta[2].data_pool_id = 1
  /\ meta[1].data_offset # meta[2].data_offset
  /\ pools[1].gen[meta[1].data_offset] >= 2

\* the handles whose metadata word references a data slot
WithSlot == {h \in DOMAIN meta : meta[h].data_pool_id # 0}

\* C18 (live-slot invariant): in every reachable state the metadata word
\* installed for a handle with pool_id # 0 references a slot its arena has
\* handed out that is neither on the arena's free list nor in an epoch's
\* retired list, and no two handles' words reference the same
\* (pool_id, data_offset).
C18_LiveSlot ==
  /\ \A h \in WithSlot :
       LET p == meta[h].data_pool_id
           s == meta[h].data_offset
       IN  /\ s \in 1..(pools[p].next_index - 1)
           /\ s \notin FreeList(pools[p])
           /\ s \notin RetiredSlots(p)
  /\ \A h1, h2 \in WithSlot :
       (meta[h1].data_pool_id = meta[h2].data_pool_id
          /\ meta[h1].data_offset = meta[h2].data_offset) => h1 = h2

\* both handles reference a slot of tier 1 while a replaced slot of that
\* tier is in a retired list
C18_Witness ==
  /\ WithSlot = {1, 2}
  /\ meta[1].data_pool_id = 1 /\ meta[2].data_pool_id = 1
  /\ RetiredSlots(1) # {}

\* C20 (linearization at the swap): the payload is in the slot before the
\* swap publishes the word, so a load that has observed a metadata word
\* reads from its slot the bytes the slot held when the word was installed
\* (read_other records that LoadData found other bytes than LoadMeta saw
\* under the observed word); and once every call has returned, a load of a
\* handle returns what the word of the last swap on that handle denoted at
\* that swap.
C20_SwapLinearization ==
  /\ \A t \in DOMAIN th : ~th[t].read_other
  /\ Quiescent =>
       \A h \in DOMAIN meta :
         hist.last_stored[h].some =>
           LoadView(meta[h], owner_registry, reverse, pools) = hist.image[h]

\* C21 (lamports/rent encoding): for every lamports value in 1..2^63-1 the
\* metadata word built by store decodes to the same lamports and to rent
\* epoch u64::MAX, whatever rent_epoch was supplied; for lamports 0 and
\* every rent_epoch below 2^12 it decodes to lamports 0 and the same
\* rent_epoch.
C21_LamportsRentEncoding ==
  probe.fn = "new_meta" =>
    LET l == probe.lamports
        r == probe.rent_epoch
        w == probe.word
    IN  /\ (U64Gt0(l) /\ l[64] = 0) =>
             (get_lamports(w) = l /\ get_rent_epoch(w) = U64_MAX)
        /\ (l = U64_ZERO /\ U64Shr(r, 12) = U64_ZERO) =>
             (get_lamports(w) = U64_ZERO /\ get_rent_epoch(w) = r)

\* the word built for lamports 2^63 - 1 and rent epoch 4095
C21_Witness ==
  /\ probe.fn = "new_meta"
  /\ probe.lamports = U64Low(63) /\ probe.rent_epoch = U64Low(12)
  /\ get_lamports(probe.word) = U64Low(63)

\* the bytes of slot idx lie inside the committed range of arena a
Committed(a, slot_size, idx) == (idx + 1) * slot_size <= a.committed_upto_bytes

\* the steps after a thread's access to the metadata slot of its handle
AfterGuard == {"drop_dec", "adv_load", "adv_check", "adv_cas"}
TouchedMeta(rec) ==
  \/ rec.op = "store" /\ rec.pc \in {"store_retire"} \cup AfterGuard
  \/ rec.op = "load" /\ rec.pc \in {"load_owner", "load_data"} \cup AfterGuard

\* the data slots are committed when store copies into them and load reads them
DataCommitted ==
  \A t \in DOMAIN th :
    /\ (th[t].op = "store" /\ th[t].pc = "store_copy") =>
         Committed(pools[th[t].pool_id], SlotSize(th[t].pool_id), th[t].data_offset)
    /\ (th[t].op = "load" /\ th[t].pc = "load_data") =>
         Committed(pools[th[t].meta_val.data_pool_id],
                   SlotSize(th[t].meta_val.data_pool_id), th[t].meta_val.data_offset)

\* C22 (committed memory): every slot address load or store dereferences
\* lies inside the committed range [0, committed_upto_bytes) of its arena:
\* the data slot store copies into and load reads, and the metadata slot
\* of handle H that store(H, ...) swaps into and load(H) reads.
C22_CommittedMemory ==
  /\ DataCommitted
  /\ \A t \in DOMAIN th :
       TouchedMeta(th[t]) => Committed(meta_arena, META_SLOT_SIZE, th[t].account_id)

\* C23 (reclamation liveness): under fair scheduling, with guards entered
\* and dropped again and again, every slot a store has retired is
\* eventually on its arena's free list; current_epoch takes each of the
\* values 0, 1, 2 again and again, and each retired list is empty again and
\* again.
C23_ReclamationLiveness ==
  /\ \A s \in 1..MaxLiveOps :
       (s \in RetiredSlots(1)) ~> (s \in FreeList(pools[1]))
  /\ \A e \in 0..2 : []<>(current_epoch = e) /\ []<>(retired[e] = <<>>)

\* a slot a store retired is on the free list of its arena
C23_Witness ==
  /\ RetiredSlots(1) = {}
  /\ FreeList(pools[1]) # {}
  /\ Quiescent

====
